---- MODULE Spec2Model ----
(***************************************************************************)
(* Model of the caption-review service (src/src/index.ts): the flag routes *)
(* POST /flags and DELETE /flags, the token signer createFlagId and the    *)
(* timestamp formatter formatTime.                                         *)
(*                                                                         *)
(* Text is a sequence of one-character strings, so that split("-"),        *)
(* padStart and String(n) are computed character by character.  A          *)
(* JavaScript number is <<"num", n>> for the integer n, or NaN.            *)
(***************************************************************************)
EXTENDS Integers, Sequences, FiniteSets, TLC

\* ------------------------------------------------------------------ bounds

\* Request slots of one run (each slot carries one HTTP request).
MaxReq == 3
\* The signer is exercised on ids -MaxTokenId .. MaxTokenId.
MaxTokenId == 2
\* The formatter is exercised on every offset -MaxMs .. MaxMs (and SampleMs).
MaxMs == 40

\* --------------------------------------------------------- text and numbers

Digits == <<"0", "1", "2", "3", "4", "5", "6", "7", "8", "9">>

IsDigit(c) == \E d \in 1..10 : Digits[d] = c

DigitVal(c) == (CHOOSE d \in 1..10 : Digits[d] = c) - 1

NaN == <<"NaN", 0>>

Num(n) == <<"num", n>>

\* The value a missing array element or an unbound destructuring name has.
Undefined == <<"undefined">>

RECURSIVE NatToString(_)
NatToString(n) ==
    IF n < 10 THEN <<Digits[n + 1]>>
    ELSE NatToString(n \div 10) \o <<Digits[(n % 10) + 1]>>

\* Number.prototype.toString / String(n) on an integer below 1e21, and on NaN.
String(x) ==
    IF x = NaN THEN <<"N", "a", "N">>
    ELSE IF x[2] < 0 THEN <<"-">> \o NatToString(-x[2])
    ELSE NatToString(x[2])

RECURSIVE DecimalValue(_)
DecimalValue(s) ==
    IF s = <<>> THEN 0
    ELSE 10 * DecimalValue(SubSeq(s, 1, Len(s) - 1)) + DigitVal(s[Len(s)])

\* Number(text) for text over the model's alphabet (digits, "-", letters other
\* than the ones of a numeric literal: no ".", "e", "x", "+", blank): the empty
\* string is 0, a run of digits is its decimal value whatever its leading zeros,
\* anything else, undefined included, is NaN.
Number(s) ==
    IF s = Undefined THEN NaN
    ELSE IF s = <<>> THEN Num(0)
    ELSE IF \A k \in 1..Len(s) : IsDigit(s[k]) THEN Num(DecimalValue(s))
    ELSE NaN

\* String.prototype.split(sep) with a one-character separator.
RECURSIVE split(_, _)
split(s, sep) ==
    IF \A k \in 1..Len(s) : s[k] # sep THEN <<s>>
    ELSE LET k == CHOOSE p \in 1..Len(s) :
                      s[p] = sep /\ \A q \in 1..(p - 1) : s[q] # sep
         IN <<SubSeq(s, 1, k - 1)>> \o split(SubSeq(s, k + 1, Len(s)), sep)

\* arr[k] of a JavaScript array (k counted from 0).
At(arr, k) == IF k + 1 <= Len(arr) THEN arr[k + 1] ELSE Undefined

\* String.prototype.padStart(n, c).
padStart(s, n, c) ==
    IF Len(s) >= n THEN s ELSE [k \in 1..(n - Len(s)) |-> c] \o s

\* ------------------------------------------------------------ the signer

\* The values of process.env["FLAG_SECRET"]: "" stands for unset (or empty,
\* which `!secret` treats alike).
Secrets == {"a", "b"}

SecretValues == {""} \cup Secrets

\* The secret of the service run is unset or "a".
ServiceSecrets == {"", "a"}

HexOf(c) ==
    IF IsDigit(c) THEN c
    ELSE IF c = "-" THEN "c"
    ELSE IF c = "N" THEN "d"
    ELSE "f"

\* A digest computed without the key.
hmacDigestHexNoKey(secret, msg) == <<"a">> \o [k \in 1..Len(msg) |-> HexOf(msg[k])]

\* createHmac("sha256", secret).update(msg).digest("hex"): a lowercase hex
\* text without "-".  SHA-256 is not computed; the digest is an injective
\* code of (secret, msg), which is the collision-freeness the scheme rests on.
hmacDigestHex(secret, msg) == <<secret>> \o [k \in 1..Len(msg) |-> HexOf(msg[k])]

\* A signer that does not check that the secret is set.
createFlagIdUnchecked(id, secret) ==
    [threw |-> FALSE,
     value |-> <<"f", "l", "a", "g", "-">> \o String(id) \o <<"-">>
               \o hmacDigestHex(secret, String(id))]

\* createFlagId(id), with process.env["FLAG_SECRET"] passed as `secret`.
createFlagId(id, secret) ==
    IF secret = "" THEN [threw |-> TRUE, value |-> <<>>]
    ELSE [threw |-> FALSE,
          value |-> <<"f", "l", "a", "g", "-">> \o String(id) \o <<"-">>
                    \o hmacDigestHex(secret, String(id))]

\* --------------------------------------------------------- the formatter

\* JavaScript's a % b for integers (b > 0): the sign follows the dividend.
JsRem(a, b) == IF a >= 0 THEN a % b ELSE -((-a) % b)

Abs(a) == IF a >= 0 THEN a ELSE -a

\* The binary exponent of n / 1000 (n > 0): the j with 1000 * 2^j <= n < 1000 * 2^(j+1).
RECURSIVE QuotientExponent(_)
QuotientExponent(n) ==
    IF n >= 2000 THEN QuotientExponent(n \div 2) + 1
    ELSE IF n < 1000 THEN QuotientExponent(2 * n) - 1
    ELSE 0

\* The binary exponent of n (n > 0): the k with 2^k <= n < 2^(k+1).
RECURSIVE FloorLog2(_)
FloorLog2(n) == IF n >= 2 THEN FloorLog2(n \div 2) + 1 ELSE 0

RECURSIVE Pow2(_)
Pow2(e) == IF e = 0 THEN 1 ELSE 2 * Pow2(e - 1)

RECURSIVE Pow2Mod1000(_)
Pow2Mod1000(e) == IF e = 0 THEN 1 ELSE (2 * Pow2Mod1000(e - 1)) % 1000

\* formatTime receives t = body.timestamp / 1000 and later computes t * 1000:
\* both are IEEE-754 double operations, each rounded to the nearest double (53
\* bits, ties to even).  For an integer n > 0 of milliseconds, with
\* t = M * 2^-s the double nearest n / 1000 (s = 52 - QuotientExponent(n)),
\* the exact product t * 1000 is n - r / 2^s, where r = n * 2^s - 1000 * M is the
\* remainder of n * 2^s by 1000 taken in -500 .. 500 (never 500: s >= 3).  The
\* product is then rounded to a double; the doubles next to n lie 2^(k-52)
\* above it and as far below (half as far when n = 2^k), k = FloorLog2(n).
\* RoundedProduct is -1, 0 or 1 as (n / 1000) * 1000 computed in doubles is the
\* double just below n, n itself, or the double just above n.
RoundedProduct(n) ==
    IF n % 1000 = 0 THEN 0
    ELSE LET j == QuotientExponent(n)
             k == FloorLog2(n)
             R == ((n % 1000) * Pow2Mod1000(52 - j)) % 1000
             r == IF R < 500 THEN R ELSE R - 1000
             half == Pow2(k - j - 1)
             halfBelow == IF n = Pow2(k) THEN half \div 2 ELSE half
         IN IF r > 0 THEN (IF r > halfBelow THEN -1 ELSE 0)
            ELSE (IF -r > half THEN 1 ELSE 0)

\* Math.floor((t * 1000) % 1000) for t = ms / 1000: the remainder keeps the sign
\* of ms, and a product that fell just short of the integer floors one lower.
MillisField(ms) ==
    IF ms = 0 THEN 0
    ELSE LET d == RoundedProduct(Abs(ms))
             a == Abs(ms) % 1000
         IN IF ms > 0 THEN (IF d < 0 THEN a - 1 ELSE a)
            ELSE (IF d > 0 THEN -a - 1 ELSE -a)

\* Math.floor(x).toString() of an integer-valued result (-0 prints as "0").
FloorToString(n) == String(Num(n))

\* formatTime(t) for t = ms / 1000, ms an integer.  The hour, minute and second
\* fields floor a quotient whose distance to the next integer (at least
\* 1 / 3600000 unless the quotient is exact) is far above the rounding error,
\* so they are those of the exact quotient; x \div y is the floor.
formatTime(ms) ==
    LET h == padStart(FloorToString(ms \div 3600000), 2, "0")
        m == padStart(FloorToString(JsRem(ms, 3600000) \div 60000), 2, "0")
        s == padStart(FloorToString(JsRem(ms, 60000) \div 1000), 2, "0")
        msec == padStart(FloorToString(MillisField(ms)), 3, "0")
    IN h \o <<":">> \o m \o <<":">> \o s \o <<".">> \o msec

\* ------------------------------------------------------------- the state

VARIABLES
    flagSecret,  \* process.env["FLAG_SECRET"], read anew by every createFlagId call
    rows,        \* the record store's "Flags" table
    nextId,      \* the id the record store assigns next
    req          \* the HTTP requests: what each was given, where it stands, its response

vars == <<flagSecret, rows, nextId, req>>

Requests == 1..MaxReq

\* The route parameters event, slug, lang.
Params ==
    {[event |-> "bkkjs", slug |-> "talk", lang |-> l] : l \in {"en", "th"}}

Pending == [status |-> "pending", flagId |-> <<>>]

Failed(why) == [status |-> why, flagId |-> <<>>]

\* A slot no request has arrived in.  secretSeen is the secret the request's
\* createFlagId call read ("?" before it), rowSeen whether the DELETE's id was a
\* row of the table when it was verified, issued whether a POST had already
\* returned the DELETE's token: the three are kept for the properties only.
NoRequest ==
    [kind |-> "none", pc |-> "idle", params |-> [event |-> "", slug |-> "", lang |-> ""],
     timestamp |-> 0, text |-> "", flagId |-> <<>>,
     result |-> <<>>, deleted |-> <<>>,
     secretSeen |-> "?", rowSeen |-> FALSE, issued |-> FALSE, response |-> Pending]

Init ==
    /\ flagSecret \in ServiceSecrets
    /\ rows = {}
    /\ nextId = 1
    /\ req = [i \in Requests |-> NoRequest]

\* --------------------------------------------------------- the record store

\* grist.addRecords("Flags", records): every record becomes a row with a fresh
\* id; the ids are returned in the order of the records.
addRecords(table, firstId, records) ==
    [rows |-> table \cup {[id |-> firstId + k - 1,
                            vtt |-> records[k].vtt,
                            timestamp |-> records[k].timestamp,
                            text |-> records[k].text] : k \in 1..Len(records)},
     ids |-> [k \in 1..Len(records) |-> firstId + k - 1],
     nextId |-> firstId + Len(records)]

\* Whether the number `id` is the id of a row.
HasRow(table, id) == id # NaN /\ \E row \in table : row.id = id[2]

\* grist.deleteRecords("Flags", ids): the table without the rows of these ids.
deleteRecords(table, ids) ==
    {row \in table : \A k \in 1..Len(ids) : ids[k] = NaN \/ row.id # ids[k][2]}

\* The store may answer a deleteRecords call with an error when the id is no
\* (longer a) row of the table.
deleteRecordsMayFail(table, ids) == ~HasRow(table, ids[1])

\* ------------------------------------------------------------ the handlers

\* A POST request has returned this token.
Issued(flagId) ==
    \E k \in Requests :
        req[k].kind = "POST" /\ req[k].response = [status |-> "ok", flagId |-> flagId]

\* Slots are taken in order.
Arrives(i) ==
    /\ req[i].pc = "idle"
    /\ \A j \in Requests : j < i => req[j].kind # "none"

\* POST /flags/:event/:slug/:lang, up to the await of grist.addRecords: the row
\* is built and inserted, and the store's ids are the `result`.
PostFlag(i, params, body) ==
    /\ Arrives(i)
    /\ LET added == addRecords(rows, nextId,
                       <<[vtt |-> <<params.event, "/", params.slug, "_",
                                    params.lang, ".vtt">>,
                          timestamp |-> formatTime(body.timestamp),
                          text |-> body.text]>>)
       IN /\ rows' = added.rows
          /\ nextId' = added.nextId
          /\ req' = [req EXCEPT ![i] =
                        [@ EXCEPT !.kind = "POST", !.pc = "minting",
                                  !.params = params,
                                  !.timestamp = body.timestamp,
                                  !.text = body.text,
                                  !.result = added.ids]]
    /\ UNCHANGED flagSecret

\* A response that signs the number of ids returned instead of the first id.
postFlagReturnLength(result, secret) ==
    LET minted == createFlagId(Num(Len(result)), secret)
    IN IF minted.threw THEN Failed("error:secret")
       ELSE [status |-> "ok", flagId |-> minted.value]

\* The response of POST once addRecords has returned `result`.
postFlagReturn(result, secret) ==
    LET minted == createFlagId(Num(result[1]), secret)
    IN IF minted.threw THEN Failed("error:secret")
       ELSE [status |-> "ok", flagId |-> minted.value]

\* POST /flags after the await: return { flagId: createFlagId(result[0]) }.
PostFlagResume(i) ==
    /\ req[i].pc = "minting"
    /\ req' = [req EXCEPT ![i] =
                  [@ EXCEPT !.pc = "done", !.secretSeen = flagSecret,
                            !.response = postFlagReturn(req[i].result, flagSecret)]]
    /\ UNCHANGED <<flagSecret, rows, nextId>>

\* A check that never compares the signature.
deleteFlagCheckNoCompare(flagId, secret) ==
    LET id == At(split(flagId, "-"), 1)
    IN IF createFlagId(Number(id), secret).threw
       THEN [status |-> "error:secret", ids |-> <<>>]
       ELSE [status |-> "deleteRecords", ids |-> <<Number(id)>>]

\* A check whose comparison is inverted (=== for !==).
deleteFlagCheckInverted(flagId, secret) ==
    LET parts == split(flagId, "-")
        minted == createFlagId(Number(At(parts, 1)), secret)
    IN IF minted.threw THEN [status |-> "error:secret", ids |-> <<>>]
       ELSE IF At(parts, 2) = At(split(minted.value, "-"), 2)
            THEN [status |-> "error:invalid", ids |-> <<>>]
       ELSE [status |-> "deleteRecords", ids |-> <<Number(At(parts, 1))>>]

\* A check that also looks the id up in the table.
deleteFlagCheckNeedsRow(flagId, secret) ==
    LET parts == split(flagId, "-")
        minted == createFlagId(Number(At(parts, 1)), secret)
    IN IF minted.threw THEN [status |-> "error:secret", ids |-> <<>>]
       ELSE IF At(parts, 2) # At(split(minted.value, "-"), 2)
               \/ ~HasRow(rows, Number(At(parts, 1)))
            THEN [status |-> "error:invalid", ids |-> <<>>]
       ELSE [status |-> "deleteRecords", ids |-> <<Number(At(parts, 1))>>]

\* DELETE /flags/:event/:slug/:lang/:flagId up to the await: the token is split
\* and its signature compared; `ids` is the argument of deleteRecords.
deleteFlagCheck(flagId, secret) ==
    LET parts == split(flagId, "-")
        id == At(parts, 1)
        signature == At(parts, 2)
        minted == createFlagId(Number(id), secret)
    IN IF minted.threw THEN [status |-> "error:secret", ids |-> <<>>]
       ELSE IF signature # At(split(minted.value, "-"), 2)
            THEN [status |-> "error:invalid", ids |-> <<>>]
       ELSE [status |-> "deleteRecords", ids |-> <<Number(id)>>]

DeleteFlag(i, params, flagId) ==
    /\ Arrives(i)
    /\ LET check == deleteFlagCheck(flagId, flagSecret)
           called == check.status = "deleteRecords"
       IN req' = [req EXCEPT ![i] =
                     [@ EXCEPT !.kind = "DELETE",
                               !.pc = IF called THEN "deleting" ELSE "done",
                               !.params = params,
                               !.flagId = flagId,
                               !.issued = Issued(flagId),
                               !.deleted = check.ids,
                               !.secretSeen = flagSecret,
                               !.rowSeen = called /\ HasRow(rows, check.ids[1]),
                               !.response = IF called THEN Pending
                                            ELSE Failed(check.status)]]
    /\ UNCHANGED <<flagSecret, rows, nextId>>

\* The store carries out the deleteRecords call of request i and the handler
\* returns { ok: true }; or the store refuses an id that is no row, and the
\* handler's await throws.
GristDeleteRecords(i) ==
    /\ req[i].pc = "deleting"
    /\ \/ /\ rows' = deleteRecords(rows, req[i].deleted)
          /\ req' = [req EXCEPT ![i] =
                        [@ EXCEPT !.pc = "done",
                                  !.response = [status |-> "ok", flagId |-> <<>>]]]
       \/ /\ deleteRecordsMayFail(rows, req[i].deleted)
          /\ rows' = rows
          /\ req' = [req EXCEPT ![i] =
                        [@ EXCEPT !.pc = "done", !.response = Failed("error:store")]]
    /\ UNCHANGED <<flagSecret, nextId>>

\* The environment variable is set, changed or removed.
SetFlagSecret(secret) ==
    /\ secret # flagSecret
    /\ flagSecret' = secret
    /\ UNCHANGED <<rows, nextId, req>>

\* ---------------------------------------------------------------- inputs

Token(tag, idText, sigText) == tag \o <<"-">> \o idText \o <<"-">> \o sigText

Flag == <<"f", "l", "a", "g">>

\* Request bodies of the service run.
Bodies == {[timestamp |-> 65000, text |-> "typo"]}

PostParams == {[event |-> "bkkjs", slug |-> "talk", lang |-> "en"]}

\* Tokens presented in the service run: the tokens of flags 1 and 2, and the
\* signature of flag 1 on the id of flag 2.
ServiceTokens ==
    {createFlagId(Num(n), "a").value : n \in {1, 2}}
    \cup {Token(Flag, String(Num(2)), hmacDigestHex("a", String(Num(1))))}

Next ==
    \/ \E i \in Requests, params \in PostParams, body \in Bodies :
           PostFlag(i, params, body)
    \/ \E i \in Requests : PostFlagResume(i)
    \/ \E i \in Requests, params \in Params, flagId \in ServiceTokens :
           DeleteFlag(i, params, flagId)
    \/ \E i \in Requests : GristDeleteRecords(i)
    \/ \E secret \in ServiceSecrets : SetFlagSecret(secret)

Spec == Init /\ [][Next]_vars

\* ------------------------------------------- the signer and formatter runs

\* The ids the signer is exercised on.
TokenIds == (-MaxTokenId)..MaxTokenId

\* Id segments: the decimal text of each id, the same with a leading zero,
\* the empty text, a letter, and "NaN".
IdTexts ==
    {String(Num(n)) : n \in TokenIds}
    \cup {<<"0">> \o String(Num(n)) : n \in 0..MaxTokenId}
    \cup {<<>>, <<"x">>, String(NaN)}

\* Signature segments: every digest of an id under a secret, the same with its
\* last character changed or dropped, and the empty text.
SigTexts ==
    LET digests == {hmacDigestHex(s, String(Num(n))) : n \in TokenIds, s \in Secrets}
    IN digests
       \cup {SubSeq(d, 1, Len(d) - 1) \o <<"f">> : d \in digests}
       \cup {SubSeq(d, 1, Len(d) - 1) : d \in digests}
       \cup {<<>>}

\* Tokens presented to the signer: every tag, id segment and signature segment,
\* with or without a fourth part, and texts of fewer than three parts.
SignerTokens ==
    {Token(tag, idText, sigText) \o rest :
        tag \in {Flag, <<"x">>, <<>>}, idText \in IdTexts, sigText \in SigTexts,
        rest \in {<<>>, <<"-", "z">>}}
    \cup {<<>>, Flag, Flag \o <<"-", "1">>}

\* The table holds the flags 1 .. MaxTokenId, created by earlier requests.
InitSigner ==
    LET added == addRecords({}, 1,
                     [k \in 1..MaxTokenId |->
                         [vtt |-> <<"bkkjs", "/", "talk", "_", "en", ".vtt">>,
                          timestamp |-> formatTime(65000), text |-> "typo"]])
    IN /\ flagSecret \in SecretValues
       /\ rows = added.rows
       /\ nextId = added.nextId
       /\ req = [i \in Requests |-> NoRequest]

NextSigner ==
    \/ \E params \in Params, flagId \in SignerTokens : DeleteFlag(1, params, flagId)
    \/ GristDeleteRecords(1)

\* One DELETE request on any token, under any secret.
SpecSigner == InitSigner /\ [][NextSigner]_vars

\* Millisecond offsets met in practice and at the edges of the day.
SampleMs ==
    {1001, 65000, 3661500, 86399999, 86400000, 360000000, -1001, -3600000}

FormatOffsets == ((-MaxMs)..MaxMs) \cup SampleMs

NextFormat ==
    \/ \E params \in PostParams, ms \in FormatOffsets :
           PostFlag(1, params, [timestamp |-> ms, text |-> "typo"])
    \/ PostFlagResume(1)

\* One POST request on any offset.
SpecFormat == Init /\ [][NextFormat]_vars

\* ---------------------------------------------------------------- claims

IsDelete(i) == req[i].kind = "DELETE"

IsPost(i) == req[i].kind = "POST"

\* Request i has issued a deleteRecords call.
Called(i) == req[i].deleted # <<>>

\* The signature segment request i presented: the third hyphen-delimited part.
PresentedSignature(i) == At(split(req[i].flagId, "-"), 2)

\* The step is request i's DELETE handler running up to its await.
DeleteFlagStep(i) == req[i].pc = "idle" /\ req'[i].kind = "DELETE"

\* The step is request i's POST handler resuming after addRecords.
PostFlagResumeStep(i) == req[i].pc = "minting" /\ req'[i].pc = "done"

\* C1, the calls: a deleteRecords call comes from a DELETE request only, carries
\* exactly one id, and the signature the request presented is the digest of
\* that id under the secret the request read.
C1_CallsAreSigned ==
    \A i \in Requests :
        Called(i) =>
            /\ IsDelete(i)
            /\ Len(req[i].deleted) = 1
            /\ req[i].secretSeen \in Secrets
            /\ PresentedSignature(i) =
                   hmacDigestHex(req[i].secretSeen, String(req[i].deleted[1]))

\* C1, the rows: a row leaves the table only in the store step of a DELETE
\* request that presented the digest of that very row's id.
C1_RowsLeaveSigned ==
    \A row \in rows :
        row \notin rows' =>
            \E i \in Requests :
                /\ IsDelete(i) /\ req[i].pc = "deleting" /\ req'[i].pc = "done"
                /\ req[i].deleted = <<Num(row.id)>>
                /\ PresentedSignature(i) =
                       hmacDigestHex(req[i].secretSeen, String(Num(row.id)))

FailsVerification(flagId, secret) ==
    LET parts == split(flagId, "-")
    IN \/ Len(parts) < 3
       \/ parts[3] # hmacDigestHex(secret, String(Number(parts[2])))

Verdict(i) == IF Called(i) THEN "accepted" ELSE req[i].response.status

\* C10: whether a DELETE request's token is accepted depends on the token text
\* and the secret alone: two requests with the same token under the same secret
\* get the same verdict and the same deleteRecords argument, whatever the table
\* held, whatever requests came before and whatever their route parameters.
C10_StatelessVerification ==
    \A i, j \in Requests :
        (/\ IsDelete(i) /\ IsDelete(j)
         /\ req[i].flagId = req[j].flagId
         /\ req[i].secretSeen = req[j].secretSeen) =>
            /\ Verdict(i) = Verdict(j)
            /\ req[i].deleted = req[j].deleted

\* C10's case: the same token was accepted twice under the same secret, once
\* while its row was in the table and once after the row was deleted, on routes
\* of different languages; and a token of an id never created was accepted.
C10_Witness ==
    /\ \E i, j \in Requests :
           /\ IsDelete(i) /\ IsDelete(j)
           /\ req[i].flagId = req[j].flagId
           /\ req[i].secretSeen = req[j].secretSeen
           /\ Called(i) /\ Called(j)
           /\ req[i].rowSeen /\ ~req[j].rowSeen
           /\ req[i].params # req[j].params
           /\ req[i].response.status = "ok"
    /\ nextId = 2

\* The step is request i's POST handler running up to its await.
PostFlagStep(i) == req[i].pc = "idle" /\ req'[i].kind = "POST"

\* C6, the create: a POST inserts exactly one row, whose id is the first the
\* store returned, and a POST that answers returns the token of that id.
C6_CreateStep ==
    \A i \in Requests :
        /\ PostFlagStep(i) =>
               /\ Cardinality(rows') = Cardinality(rows) + 1
               /\ \E row \in rows' \ rows : row.id = req'[i].result[1]
               /\ rows \subseteq rows'
        /\ (PostFlagResumeStep(i) /\ req'[i].response.status = "ok") =>
               /\ flagSecret \in Secrets
               /\ req'[i].response.flagId =
                      Flag \o <<"-">> \o String(Num(req[i].result[1])) \o <<"-">>
                      \o hmacDigestHex(flagSecret, String(Num(req[i].result[1])))

\* Request j arrived after the POST request i had returned its token, and
\* presents that token under the secret it was minted with.
PresentsTokenOf(j, i) ==
    /\ IsPost(i) /\ req[i].response.status = "ok"
    /\ IsDelete(j) /\ req[j].issued
    /\ req[j].secretSeen = req[i].secretSeen
    /\ req[j].flagId = req[i].response.flagId

\* C6 as stated: a later DELETE presenting the token a POST returned, the secret
\* unchanged, passes verification, issues deleteRecords for that single id
\* and returns ok, whatever requests interleave.
C6_DeleteReturnsOk ==
    \A i, j \in Requests :
        PresentsTokenOf(j, i) =>
            /\ req[j].deleted = <<Num(req[i].result[1])>>
            /\ req[j].response.status \in {"pending", "ok"}

\* C6 as amended, the delete: such a DELETE passes verification and issues
\* deleteRecords for that single id; it returns ok when the store carries the
\* call out, and fails only with the store's own error, when another DELETE
\* of the same id has removed the row.
C6_DeleteIssued ==
    \A i, j \in Requests :
        PresentsTokenOf(j, i) =>
            /\ req[j].deleted = <<Num(req[i].result[1])>>
            /\ req[j].response.status \in {"pending", "ok", "error:store"}
            /\ req[j].response.status = "error:store" =>
                   \E k \in Requests :
                       /\ k # j /\ IsDelete(k)
                       /\ req[k].deleted = req[j].deleted
                       /\ req[k].response.status = "ok"

\* C6 as amended: a POST inserts exactly one row and returns the token minted
\* for the first id the store returned; a DELETE presenting that token, the
\* secret unchanged, passes verification and issues deleteRecords for that
\* single id whatever requests interleave, and returns ok unless the record
\* store refuses the call because the row is already gone.
C6_CreateThenDelete == [](C6_DeleteIssued) /\ [][C6_CreateStep]_vars

\* C6's case: a second POST got id 2 and its token; a DELETE presented that
\* token, had row 2 removed and returned ok, while row 1 stayed.
C6_Witness ==
    /\ \E i, j \in Requests :
           /\ PresentsTokenOf(j, i) /\ i < j
           /\ req[i].result = <<2>>
           /\ req[j].rowSeen /\ req[j].response.status = "ok"
    /\ \E row \in rows : row.id = 1
    /\ ~\E row \in rows : row.id = 2

\* C7, the outcomes: a request fails for the missing secret exactly when the
\* secret was unset as its createFlagId call read it; a POST that failed so
\* had inserted its row before, and a DELETE that failed so called nothing.
C7_FailsAtMint ==
    \A i \in Requests :
        /\ (req[i].pc = "done" /\ req[i].kind # "none") =>
               (req[i].response.status = "error:secret" <=> req[i].secretSeen = "")
        /\ (IsPost(i) /\ req[i].response.status = "error:secret") =>
               /\ Len(req[i].result) = 1 /\ req[i].result[1] < nextId
               /\ req[i].response.flagId = <<>>
        /\ (IsDelete(i) /\ req[i].response.status = "error:secret") => ~Called(i)

\* C7, the steps: the POST that fails at minting leaves the table as it is (its
\* row is not taken back), and the DELETE that fails does so in its first step,
\* with the table untouched.
C7_NoRollback ==
    \A i \in Requests :
        /\ (PostFlagResumeStep(i) /\ flagSecret = "") =>
               /\ req'[i].response = Failed("error:secret")
               /\ rows' = rows /\ nextId' = nextId
        /\ (DeleteFlagStep(i) /\ flagSecret = "") =>
               /\ req'[i].pc = "done"
               /\ req'[i].response = Failed("error:secret")
               /\ rows' = rows /\ nextId' = nextId

\* C7: with the secret unset, a POST fails only after its row was inserted and
\* the row is not rolled back, and a DELETE fails before any record-store call;
\* the failure is that of the request whose createFlagId call finds no secret,
\* not of the process.
C7_MissingSecret == [](C7_FailsAtMint) /\ [][C7_NoRollback]_vars

\* C7's case: a POST failed for the missing secret and its row is in the table
\* with no token returned; a DELETE failed for it too without a call; and a
\* request of the same run, served while the secret was set, succeeded.
C7_Witness ==
    \E i, j, k \in Requests :
        /\ IsPost(i) /\ req[i].response = Failed("error:secret")
        /\ \E row \in rows : row.id = req[i].result[1]
        /\ IsDelete(j) /\ req[j].response = Failed("error:secret") /\ ~Called(j)
        /\ req[k].response.status = "ok"

\* The verification of request i ended as Invalid.
Rejected(i) == req[i].response = Failed("error:invalid") /\ ~Called(i)

\* C3 as stated: the token minted for any integer id, zero and the negative ones
\* included, verifies under the same secret and yields that id.
C3_RoundTrip ==
    \A i \in Requests : \A n \in TokenIds :
        (/\ IsDelete(i) /\ req[i].secretSeen \in Secrets
         /\ req[i].flagId = createFlagId(Num(n), req[i].secretSeen).value) =>
            req[i].deleted = <<Num(n)>>

HyphenFree(s) == \A k \in 1..Len(s) : s[k] # "-"

\* The token is flag-<n>-<sig> with a signature segment other than the one
\* minted for n under `secret`.
Tampered(flagId, n, secret) ==
    LET prefix == Flag \o <<"-">> \o String(Num(n)) \o <<"-">>
        sig == SubSeq(flagId, Len(prefix) + 1, Len(flagId))
    IN /\ Len(flagId) >= Len(prefix)
       /\ SubSeq(flagId, 1, Len(prefix)) = prefix
       /\ HyphenFree(sig)
       /\ sig # hmacDigestHex(secret, String(Num(n)))

\* The token pairs the signature minted for n with the id segment of another m.
Mismatched(flagId, n, secret) ==
    \E m \in TokenIds \ {n} :
        flagId = Token(Flag, String(Num(m)), hmacDigestHex(secret, String(Num(n))))

\* The token is the one minted for n under another secret.
CrossSecret(flagId, n, secret) ==
    \E other \in Secrets \ {secret} : flagId = createFlagId(Num(n), other).value

\* C4: a token that differs from a minted one in its signature segment only, a
\* token that pairs a minted signature with the id segment of another integer,
\* and a token minted under another secret are all rejected as Invalid.
C4_TamperRejected ==
    \A i \in Requests : \A n \in TokenIds :
        (/\ IsDelete(i) /\ req[i].secretSeen \in Secrets
         /\ \/ Tampered(req[i].flagId, n, req[i].secretSeen)
            \/ Mismatched(req[i].flagId, n, req[i].secretSeen)
            \/ CrossSecret(req[i].flagId, n, req[i].secretSeen)) =>
            Rejected(i)

\* C4's case: under secret "b", the token minted for flag 1 under secret "a"
\* was presented and rejected, its row still in the table.
C4_Witness ==
    \E i \in Requests :
        /\ IsDelete(i) /\ req[i].secretSeen = "b"
        /\ req[i].flagId = createFlagId(Num(1), "a").value
        /\ CrossSecret(req[i].flagId, 1, "b")
        /\ Rejected(i)
        /\ \E row \in rows : row.id = 1

\* C5 as stated: a token is accepted only if it has exactly three
\* hyphen-delimited parts, the tag "flag", and a canonical decimal integer as
\* its id part.
C5_StructureChecked ==
    \A i \in Requests :
        Called(i) =>
            LET parts == split(req[i].flagId, "-")
            IN /\ Len(parts) = 3
               /\ parts[1] = Flag
               /\ Number(parts[2]) # NaN
               /\ parts[2] = String(Number(parts[2]))

AllDigits(s) == \A k \in 1..Len(s) : IsDigit(s[k])

\* HH:MM:SS.mmm: digits only, at least two in the first three fields, three
\* in the last.
WellShaped(ts) ==
    LET fields == split(ts, ":")
        last == split(At(fields, 2), ".")
    IN /\ Len(fields) = 3 /\ Len(last) = 2
       /\ \A f \in {fields[1], fields[2], last[1]} : AllDigits(f) /\ Len(f) >= 2
       /\ AllDigits(last[2]) /\ Len(last[2]) = 3

\* C8 as stated: whatever integer offset the POST is given, the timestamp of
\* the created row is non-negative and has the shape HH:MM:SS.mmm.
C8_TimestampShape == \A row \in rows : WellShaped(row.timestamp)

\* The decomposition hours, minutes, seconds, milliseconds of an offset.
ReferenceTimestamp(ms) ==
    padStart(NatToString(ms \div 3600000), 2, "0") \o <<":">>
    \o padStart(NatToString((ms \div 60000) % 60), 2, "0") \o <<":">>
    \o padStart(NatToString((ms \div 1000) % 60), 2, "0") \o <<".">>
    \o padStart(NatToString(ms % 1000), 3, "0")

\* C9 as stated: for an offset of 0 .. 86399999 ms the timestamp of the created
\* row is the reference decomposition of the offset.
C9_TimestampReference ==
    \A i \in Requests :
        (IsPost(i) /\ req[i].timestamp >= 0 /\ req[i].timestamp < 86400000) =>
            \A row \in rows :
                row.id = req[i].result[1] =>
                    row.timestamp = ReferenceTimestamp(req[i].timestamp)

====
